---------------------------- MODULE Spec2Model ----------------------------
(***************************************************************************)
(* Exception-trap dispatch of the RMM (rmm/armv9a/src/exception/trap.rs)   *)
(* and the memory-management error conversion (rmm/monitor/src/mm/error.rs)*)
(*                                                                         *)
(* A u64 is a tuple of four 16-bit limbs, least significant first, a u32   *)
(* a tuple of two: every register keeps its full width, additions wrap     *)
(* modulo 2^64 (the overflow behaviour of the release profile).            *)
(***************************************************************************)
EXTENDS Integers, Sequences, FiniteSets, TLC

VARIABLES
    tf,         \* TrapFrame of the monitor: [regs, elr]
    vcpu,       \* vcpu.context of the guest: [gp_regs, elr]
    ESR_EL2,    \* hardware syndrome register
    HPFAR_EL2,  \* hardware fault-address-plus-level register
    FAR_EL2,    \* hardware faulting-virtual-address register
    halted,     \* TRUE once a handler has panicked
    ret,        \* <<v>> when the last handler invocation returned v, else <<>>
    written,    \* the tf.regs indices the last handler invocation assigned
    call,       \* the last invocation: handler, info, esr and the state it found
    ntraps,     \* handler invocations and hardware faults so far
    p0,         \* the guest's saved PC before the first trap
    nsmc,       \* guest traps so far that were Synchronous with an SMC syndrome
    lastRemap,  \* <<a1, a2>> of the last remap-shared-page call when the hardware
                \* has not updated the fault registers since, else <<>>
    conv,       \* mm::error conversions made so far: [usize, rmi], each a sequence
                \* of [err, val]
    mc          \* several cores: [cores, banks, solo, steps], or <<>> with one core

vars == <<tf, vcpu, ESR_EL2, HPFAR_EL2, FAR_EL2, halted, ret, written, call, ntraps,
          p0, nsmc, lastRemap, conv, mc>>

----------------------------------------------------------------------------
(* Bounds of the model *)

\* handler invocations and hardware faults in one behaviour
MaxTraps == 2

\* registers of the trap frame kept in the model (0..3 carry the result)
NumTfRegs == 5

\* general-purpose registers of the guest kept in the model (0..3 are read)
NumGpRegs == 5

\* conversions of memory-management errors in one behaviour
MaxConversions == 2

\* cores running the dispatch logic side by side
NumCores == 2

----------------------------------------------------------------------------
(* 64-bit and 32-bit values *)

U64(n) == <<n, 0, 0, 0>>

ZERO == U64(0)

\* `esr as u64`: zero extension of a u32
AsU64(esr) == <<esr[1], esr[2], 0, 0>>

\* x + 4 on u64, wrapping
WrapAdd4(x) ==
    LET s1 == x[1] + 4
        s2 == x[2] + (s1 \div 2^16)
        s3 == x[3] + (s2 \div 2^16)
        s4 == x[4] + (s3 \div 2^16)
    IN  <<s1 % 2^16, s2 % 2^16, s3 % 2^16, s4 % 2^16>>

\* x >> 8 on u64
Shr8(x) ==
    << (x[1] \div 2^8) + (x[2] % 2^8) * 2^8,
       (x[2] \div 2^8) + (x[3] % 2^8) * 2^8,
       (x[3] \div 2^8) + (x[4] % 2^8) * 2^8,
       (x[4] \div 2^8) >>

----------------------------------------------------------------------------
(* Syndrome decoder and encoder (exception/syndrome.rs) *)

\* the exception class field, bits 31..26 of the syndrome
EC(esr) == esr[2] \div 2^10

\* Fault::from: the fault status field, bits 5..0, and its level, bits 1..0
FaultFrom(esr) ==
    LET dfsc == esr[1] % 2^6
    IN  IF dfsc \div 4 = 1
        THEN [fault |-> "Translation", level |-> dfsc % 4]
        ELSE [fault |-> "Other", level |-> dfsc]

\* Syndrome::from(esr)
SyndromeFrom(esr) ==
    CASE EC(esr) = 60 -> [tag |-> "Brk", arg |-> esr[1]]
      [] EC(esr) = 22 -> [tag |-> "HVC", arg |-> 0]
      [] EC(esr) = 23 -> [tag |-> "SMC", arg |-> 0]
      [] EC(esr) \in {32, 33} -> [tag |-> "InstructionAbort", arg |-> FaultFrom(esr)]
      [] EC(esr) \in {36, 37} -> [tag |-> "DataAbort", arg |-> FaultFrom(esr)]
      [] OTHER -> [tag |-> "Unclassified", arg |-> esr]

\* Syndrome::DataAbort(Fault::Translation { level }).into(): EC 0b100100, DFSC 0b0001LL
DataAbortTranslationInto(level) == <<4 + level, 36 * 2^10, 0, 0>>

----------------------------------------------------------------------------
(* Protocol constants (monitor::rmi, monitor::rsi) *)

RET_EXCEPTION_IRQ == U64(2)

RET_EXCEPTION_TRAP == U64(4)

HOST_CALL == <<409, 50176, 0, 0>>

REMAP_PAGE == <<512, 50176, 0, 0>>

RET_TO_REC == 0

RET_TO_RMM == 1

\* no value returned (handle_exception returns nothing)
NoRet == <<>>

----------------------------------------------------------------------------
(* Inputs *)

Source == {"CurrentSPEL0", "CurrentSPELx", "LowerAArch64", "LowerAArch32"}

Kind == {"Synchronous", "Irq", "Fiq", "SError"}

Info == [source : Source, kind : Kind]

ESR_BRK == <<1, 60 * 2^10>>

ESR_HVC == <<0, 22 * 2^10 + 2^9>>

ESR_SMC == <<0, 23 * 2^10 + 2^9>>

ESR_IABT == <<6, 32 * 2^10>>

ESR_DABT == <<11, 36 * 2^10 + 2^9>>

ESR_ZERO == <<0, 0>>

ESR_ONES == <<2^16 - 1, 2^16 - 1>>

EsrVals == {ESR_BRK, ESR_HVC, ESR_SMC, ESR_IABT, ESR_DABT, ESR_ONES}

\* guest commands: the two recognised ones, and two others, one of which
\* agrees with HOST_CALL on its low 32 bits
CMD_HIGH == <<409, 50176, 1, 0>>

Cmds == {HOST_CALL, REMAP_PAGE, ZERO, CMD_HIGH}

\* what the guest and the hardware hold when the first trap is taken: the
\* spec's own example, and one with bits set in every limb and the guest at
\* the last instruction slot of the address space
Profiles ==
    { [a1 |-> U64(4096), a2 |-> U64(85), a3 |-> U64(51),
       elr |-> <<32768, 0, 0, 0>>, tf_elr |-> <<16384, 8, 0, 0>>,
       far |-> <<43981, 0, 0, 0>>, hpfar |-> <<48, 2, 0, 0>>],
      [a1 |-> <<4660, 22136, 39612, 57072>>, a2 |-> <<7, 0, 0, 2^15>>,
       a3 |-> <<9, 9, 9, 9>>,
       elr |-> <<2^16 - 4, 2^16 - 1, 2^16 - 1, 2^16 - 1>>,
       tf_elr |-> <<2^16 - 4, 2^16 - 1, 2^16 - 1, 2^16 - 1>>,
       far |-> <<1, 2, 3, 2^16 - 1>>, hpfar |-> <<16, 0, 0, 0>>] }

\* what the hardware leaves in ESR_EL2, HPFAR_EL2, FAR_EL2 on a stage-2 data abort
HwFault == <<AsU64(ESR_DABT), <<64, 3, 0, 0>>, <<61440, 65535, 0, 0>>>>

\* what a register nobody has set holds
Junk(i) == <<57005, i, 0, 0>>

TfRegIdx == 0 .. (NumTfRegs - 1)

GpRegIdx == 0 .. (NumGpRegs - 1)

----------------------------------------------------------------------------
(* trap.rs *)

\* tf.regs[i] = v
SetReg(st, i, v) == [st EXCEPT !.regs[i] = v, !.written = @ \cup {i}]

\* advance_pc: vcpu.context.elr += 4
advance_pc(st) == [st EXCEPT !.elr = WrapAdd4(@)]

\* the four result registers
SetResult(st, r0, r1, r2, r3) ==
    SetReg(SetReg(SetReg(SetReg(st, 0, r0), 1, r1), 2, r2), 3, r3)

\* the value handle_lower_exception returns
Return(st, v) == [st EXCEPT !.ret = <<v>>]

\* mutant: the breakpoint is not stepped over
OwnBrk_NoAdvance(st) == st

\* handle_exception, Syndrome::Brk arm: tf.elr += 4
OwnBrk(st) == [st EXCEPT !.tf_elr = WrapAdd4(@)]

\* handle_exception, the panicking arms
OwnPanic(st) == [st EXCEPT !.halted = TRUE]

\* mutant: a non-synchronous exception is logged and returned from
handle_exception_KindIgnored(info, esr, st) ==
    IF info.kind = "Synchronous"
    THEN IF SyndromeFrom(esr).tag = "Brk" THEN OwnBrk(st) ELSE OwnPanic(st)
    ELSE st

handle_exception(info, esr, st) ==
    IF info.kind = "Synchronous"
    THEN IF SyndromeFrom(esr).tag = "Brk" THEN OwnBrk(st) ELSE OwnPanic(st)
    ELSE OwnPanic(st)

\* mutant: the HVC is retired like an SMC, advancing the guest PC
LowerHVC_Advances(esr, st) ==
    Return(advance_pc(SetResult(st, RET_EXCEPTION_TRAP, AsU64(esr), ZERO, st.far)),
           RET_TO_RMM)

\* mutant: the HVC report carries HPFAR_EL2, as the abort report does
LowerHVC_WithHpfar(esr, st) ==
    Return(SetResult(st, RET_EXCEPTION_TRAP, AsU64(esr), st.hpfar, st.far), RET_TO_RMM)

\* Syndrome::HVC arm
LowerHVC(esr, st) ==
    Return(SetResult(st, RET_EXCEPTION_TRAP, AsU64(esr), ZERO, st.far), RET_TO_RMM)

\* mutant: the host call is forwarded without advancing the guest PC
LowerHostCall_NoAdvance(st) ==
    Return(SetResult(st, HOST_CALL, st.gp_regs[1], st.gp_regs[2], st.gp_regs[3]),
           RET_TO_RMM)

\* Syndrome::SMC arm, rsi::HOST_CALL
LowerHostCall(st) ==
    Return(advance_pc(SetResult(st, HOST_CALL, st.gp_regs[1], st.gp_regs[2],
                                st.gp_regs[3])),
           RET_TO_RMM)

\* mutant: the fabricated fault is reported but not mirrored into the hardware
LowerRemapPage_NoMirror(st) ==
    Return(advance_pc(SetResult(st, RET_EXCEPTION_TRAP, DataAbortTranslationInto(3),
                                Shr8(st.gp_regs[1]), st.gp_regs[2])),
           RET_TO_RMM)

\* mutant: the fabricated syndrome carries the instruction abort class
LowerRemapPage_InstructionAbort(st) ==
    LET s1 == advance_pc(SetResult(st, RET_EXCEPTION_TRAP, <<7, 32 * 2^10, 0, 0>>,
                                   Shr8(st.gp_regs[1]), st.gp_regs[2]))
        s2 == [s1 EXCEPT !.esr_el2 = s1.regs[1],
                         !.hpfar = s1.regs[2],
                         !.far = s1.regs[3]]
    IN  Return(s2, RET_TO_RMM)

\* mutant: the fabricated fault addresses are mirrored into the wrong registers
LowerRemapPage_SwappedMirror(st) ==
    LET s1 == advance_pc(SetResult(st, RET_EXCEPTION_TRAP, DataAbortTranslationInto(3),
                                   Shr8(st.gp_regs[1]), st.gp_regs[2]))
        s2 == [s1 EXCEPT !.esr_el2 = s1.regs[1],
                         !.hpfar = s1.regs[3],
                         !.far = s1.regs[2]]
    IN  Return(s2, RET_TO_RMM)

\* Syndrome::SMC arm, rsi::REMAP_PAGE
LowerRemapPage(st) ==
    LET s1 == advance_pc(SetResult(st, RET_EXCEPTION_TRAP, DataAbortTranslationInto(3),
                                   Shr8(st.gp_regs[1]), st.gp_regs[2]))
        s2 == [s1 EXCEPT !.esr_el2 = s1.regs[1],
                         !.hpfar = s1.regs[2],
                         !.far = s1.regs[3]]
    IN  Return(s2, RET_TO_RMM)

\* mutant: the unhandled command is not retired
LowerUnhandledSmc_NoAdvance(st) == Return(st, RET_TO_REC)

\* mutant: the unhandled command is answered with an error code in tf.regs[0]
LowerUnhandledSmc_WritesReg0(st) ==
    Return(advance_pc(SetReg(st, 0, U64(1))), RET_TO_REC)

\* Syndrome::SMC arm, any other command
LowerUnhandledSmc(st) == Return(advance_pc(st), RET_TO_REC)

\* mutant: the command is compared on its low 32 bits only
LowerSMC_Low32(st) ==
    LET cmd == <<st.gp_regs[0][1], st.gp_regs[0][2], 0, 0>>
    IN  CASE cmd = HOST_CALL -> LowerHostCall(st)
          [] cmd = REMAP_PAGE -> LowerRemapPage(st)
          [] OTHER -> LowerUnhandledSmc(st)

\* Syndrome::SMC arm: match cmd as usize
LowerSMC(st) ==
    LET cmd == st.gp_regs[0]
    IN  CASE cmd = HOST_CALL -> LowerHostCall(st)
          [] cmd = REMAP_PAGE -> LowerRemapPage(st)
          [] OTHER -> LowerUnhandledSmc(st)

\* mutant: the abort arm stores the syndrome it was given into ESR_EL2
LowerAbort_SetsEsr(esr, st) ==
    Return([SetResult(st, RET_EXCEPTION_TRAP, AsU64(esr), st.hpfar, st.far)
               EXCEPT !.esr_el2 = AsU64(esr)],
           RET_TO_RMM)

\* Syndrome::InstructionAbort(_) | Syndrome::DataAbort(_) arm
LowerAbort(esr, st) ==
    Return(SetResult(st, RET_EXCEPTION_TRAP, AsU64(esr), st.hpfar, st.far), RET_TO_RMM)

\* mutant: an unrecognised synchronous syndrome is logged and the guest resumed
LowerOtherSync_Resumes(esr, st) == Return(st, RET_TO_REC)

\* the `undefined` arm of the synchronous match
LowerOtherSync(esr, st) ==
    Return(SetResult(st, RET_EXCEPTION_TRAP, AsU64(esr), st.hpfar, st.far), RET_TO_RMM)

\* mutant: the interrupt report leaves tf.regs[2] as it was
LowerIrq_SkipsReg2(esr, st) ==
    Return(SetReg(SetReg(SetReg(st, 0, RET_EXCEPTION_IRQ), 1, AsU64(esr)), 3, st.far),
           RET_TO_RMM)

\* mutant: the interrupt is reported with the trap result code
LowerIrq_TrapCode(esr, st) ==
    Return(SetResult(st, RET_EXCEPTION_TRAP, AsU64(esr), ZERO, st.far), RET_TO_RMM)

\* Kind::Irq arm
LowerIrq(esr, st) ==
    Return(SetResult(st, RET_EXCEPTION_IRQ, AsU64(esr), ZERO, st.far), RET_TO_RMM)

\* mutant: an unknown kind exits to the monitor, as an interrupt does
LowerUnknownKind_Exits(st) == Return(st, RET_TO_RMM)

\* mutant: an unknown kind panics, as it does in handle_exception
LowerUnknownKind_Panics(st) == [st EXCEPT !.halted = TRUE]

\* the `_` arm of the kind match
LowerUnknownKind(st) == Return(st, RET_TO_REC)

handle_lower_exception(info, esr, st) ==
    CASE info.kind = "Synchronous" ->
            LET syn == SyndromeFrom(esr).tag
            IN  CASE syn = "HVC" -> LowerHVC(esr, st)
                  [] syn = "SMC" -> LowerSMC(st)
                  [] syn \in {"InstructionAbort", "DataAbort"} -> LowerAbort(esr, st)
                  [] OTHER -> LowerOtherSync(esr, st)
      [] info.kind = "Irq" -> LowerIrq(esr, st)
      [] OTHER -> LowerUnknownKind(st)

----------------------------------------------------------------------------
(* The state machine *)

\* the state a handler invocation finds, as one record
Entry ==
    [regs |-> tf.regs, tf_elr |-> tf.elr,
     gp_regs |-> vcpu.gp_regs, elr |-> vcpu.elr,
     esr_el2 |-> ESR_EL2, hpfar |-> HPFAR_EL2, far |-> FAR_EL2,
     halted |-> FALSE, ret |-> NoRet, written |-> {}]

\* a guest trap of kind Synchronous whose syndrome decodes to SMC
IsGuestSmc(handler, info, esr) ==
    /\ handler = "handle_lower_exception"
    /\ info.kind = "Synchronous"
    /\ SyndromeFrom(esr).tag = "SMC"

Commit(handler, info, esr, st) ==
    /\ tf' = [regs |-> st.regs, elr |-> st.tf_elr]
    /\ vcpu' = [gp_regs |-> st.gp_regs, elr |-> st.elr]
    /\ ESR_EL2' = st.esr_el2
    /\ HPFAR_EL2' = st.hpfar
    /\ FAR_EL2' = st.far
    /\ halted' = st.halted
    /\ ret' = st.ret
    /\ written' = st.written
    /\ call' = [handler |-> handler, info |-> info, esr |-> esr, pre |-> Entry,
                remap |-> lastRemap]
    /\ ntraps' = ntraps + 1
    /\ p0' = p0
    /\ nsmc' = IF IsGuestSmc(handler, info, esr) THEN nsmc + 1 ELSE nsmc
    /\ lastRemap' = IF IsGuestSmc(handler, info, esr) /\ vcpu.gp_regs[0] = REMAP_PAGE
                    THEN <<vcpu.gp_regs[1], vcpu.gp_regs[2]>>
                    ELSE lastRemap
    /\ UNCHANGED <<conv, mc>>

\* the state before the first trap, for guest command c and contents p
TrapReset(c, p) ==
    /\ tf = [regs |-> [i \in TfRegIdx |-> Junk(i)], elr |-> p.tf_elr]
    /\ vcpu = [gp_regs |-> [i \in GpRegIdx |->
                             CASE i = 0 -> c [] i = 1 -> p.a1 [] i = 2 -> p.a2
                               [] i = 3 -> p.a3 [] OTHER -> Junk(i)],
               elr |-> p.elr]
    /\ ESR_EL2 = AsU64(ESR_ZERO)
    /\ HPFAR_EL2 = p.hpfar
    /\ FAR_EL2 = p.far
    /\ halted = FALSE
    /\ ret = NoRet
    /\ written = {}
    /\ call = [handler |-> "none",
               info |-> [source |-> "CurrentSPEL0", kind |-> "Synchronous"],
               esr |-> ESR_ZERO, pre |-> Entry, remap |-> <<>>]
    /\ ntraps = 0
    /\ p0 = p.elr
    /\ nsmc = 0
    /\ lastRemap = <<>>

NoConversions == [usize |-> <<>>, rmi |-> <<>>]

Init ==
    /\ \E c \in Cmds, p \in Profiles : TrapReset(c, p)
    /\ conv = NoConversions
    /\ mc = <<>>

\* an exception taken from the monitor's own context
HandleException ==
    /\ ~halted
    /\ ntraps < MaxTraps
    /\ \E info \in Info, esr \in EsrVals :
          Commit("handle_exception", info, esr, handle_exception(info, esr, Entry))

\* an exception taken from the guest
HandleLowerException ==
    /\ ~halted
    /\ ntraps < MaxTraps
    /\ \E info \in Info, esr \in EsrVals :
          Commit("handle_lower_exception", info, esr,
                 handle_lower_exception(info, esr, Entry))

\* the hardware records a fault of its own in the fault registers
HardwareFault ==
    /\ ~halted
    /\ ntraps < MaxTraps
    /\ ESR_EL2' = HwFault[1]
    /\ HPFAR_EL2' = HwFault[2]
    /\ FAR_EL2' = HwFault[3]
    /\ lastRemap' = <<>>
    /\ call' = [call EXCEPT !.handler = "hardware", !.pre = Entry, !.remap = lastRemap]
    /\ ntraps' = ntraps + 1
    /\ UNCHANGED <<tf, vcpu, halted, ret, written, p0, nsmc, conv, mc>>

Next == HandleException \/ HandleLowerException \/ HardwareFault

Spec == Init /\ [][Next]_vars

----------------------------------------------------------------------------
(* mm/error.rs *)

\* enum Error, in declaration order
MmErrors ==
    <<"MmStateError", "MmInvalidAddr", "MmInvalidLevel", "MmNoEntry", "MmAllocFail",
      "MmRustError", "MmUnimplemented", "MmIsInUse", "MmRefcountError", "MmErrorOthers">>

MmError == {MmErrors[i] : i \in 1 .. Len(MmErrors)}

\* mutant: the numeric value is the position in the declaration (`err as usize`)
ErrorIntoUsize_Ordinal(err) ==
    (CHOOSE i \in 1 .. Len(MmErrors) : MmErrors[i] = err) - 1

\* impl From<Error> for usize
ErrorIntoUsize(err) ==
    CASE err = "MmStateError" -> 1
      [] err = "MmInvalidAddr" -> 2
      [] err = "MmInvalidLevel" -> 11
      [] err = "MmNoEntry" -> 12
      [] err = "MmAllocFail" -> 13
      [] err = "MmRustError" -> 14
      [] err = "MmUnimplemented" -> 15
      [] err = "MmIsInUse" -> 16
      [] err = "MmRefcountError" -> 17
      [] err = "MmErrorOthers" -> 99

\* mutant: a missing entry is reported as such
ErrorIntoRmiError_KeepsNoEntry(err) ==
    IF err = "MmNoEntry" THEN "RmiErrorNoEntry" ELSE "RmiErrorInput"

\* impl From<Error> for RmiError
ErrorIntoRmiError(err) == "RmiErrorInput"

\* usize::from(err)
ConvertToUsize ==
    /\ Len(conv.usize) + Len(conv.rmi) < MaxConversions
    /\ \E err \in MmError :
          conv' = [conv EXCEPT !.usize = Append(@, [err |-> err,
                                                    val |-> ErrorIntoUsize(err)])]
    /\ UNCHANGED <<tf, vcpu, ESR_EL2, HPFAR_EL2, FAR_EL2, halted, ret, written, call,
                   ntraps, p0, nsmc, lastRemap, mc>>

\* RmiError::from(err)
ConvertToRmiError ==
    /\ Len(conv.usize) + Len(conv.rmi) < MaxConversions
    /\ \E err \in MmError :
          conv' = [conv EXCEPT !.rmi = Append(@, [err |-> err,
                                                  val |-> ErrorIntoRmiError(err)])]
    /\ UNCHANGED <<tf, vcpu, ESR_EL2, HPFAR_EL2, FAR_EL2, halted, ret, written, call,
                   ntraps, p0, nsmc, lastRemap, mc>>

InitErr ==
    /\ TrapReset(ZERO, CHOOSE p \in Profiles : p.a1 = U64(4096))
    /\ conv = NoConversions
    /\ mc = <<>>

NextErr == ConvertToUsize \/ ConvertToRmiError

SpecErr == InitErr /\ [][NextErr]_vars

----------------------------------------------------------------------------
(* Several cores, each with its own trap frame, guest context and fault registers *)

Cores == 1 .. NumCores

\* the traps a core takes
McTraps ==
    { [info |-> [source |-> "LowerAArch64", kind |-> "Synchronous"], esr |-> ESR_SMC],
      [info |-> [source |-> "LowerAArch64", kind |-> "Synchronous"], esr |-> ESR_DABT],
      [info |-> [source |-> "LowerAArch64", kind |-> "Synchronous"], esr |-> ESR_HVC],
      [info |-> [source |-> "LowerAArch64", kind |-> "Irq"], esr |-> ESR_ONES],
      [info |-> [source |-> "LowerAArch32", kind |-> "SError"], esr |-> ESR_ZERO] }

McCmds == {REMAP_PAGE, CMD_HIGH}

\* the contents core c starts with
ProfileOf(c) ==
    IF c % 2 = 1 THEN CHOOSE p \in Profiles : p.a1 = U64(4096)
                 ELSE CHOOSE p \in Profiles : p.a1 # U64(4096)

\* mutant: one set of fault registers serves every core
FaultRegBank_Shared(c) == 1

\* ESR_EL2, HPFAR_EL2, FAR_EL2 are registers of the core that executes the access
FaultRegBank(c) == c

\* what handle_lower_exception finds when it runs on core c
CoreEntry(c) ==
    [regs |-> mc.cores[c].regs, tf_elr |-> mc.cores[c].tf_elr,
     gp_regs |-> mc.cores[c].gp_regs, elr |-> mc.cores[c].elr,
     esr_el2 |-> mc.banks[FaultRegBank(c)].esr_el2,
     hpfar |-> mc.banks[FaultRegBank(c)].hpfar,
     far |-> mc.banks[FaultRegBank(c)].far,
     halted |-> FALSE, ret |-> NoRet, written |-> {}]

\* what core c holds: its frame, its guest context, the last decision and
\* the fault registers it sees
CoreView(c) ==
    [regs |-> mc.cores[c].regs, tf_elr |-> mc.cores[c].tf_elr,
     gp_regs |-> mc.cores[c].gp_regs, elr |-> mc.cores[c].elr,
     esr_el2 |-> mc.banks[FaultRegBank(c)].esr_el2,
     hpfar |-> mc.banks[FaultRegBank(c)].hpfar,
     far |-> mc.banks[FaultRegBank(c)].far,
     halted |-> mc.cores[c].halted, ret |-> mc.cores[c].ret,
     written |-> mc.cores[c].written]

InitCores ==
    /\ TrapReset(ZERO, CHOOSE p \in Profiles : p.a1 = U64(4096))
    /\ conv = NoConversions
    /\ \E cmd \in [Cores -> McCmds] :
          LET cs == [c \in Cores |->
                       [regs |-> [i \in TfRegIdx |-> Junk(i)],
                        tf_elr |-> ProfileOf(c).tf_elr,
                        gp_regs |-> [i \in GpRegIdx |->
                                       CASE i = 0 -> cmd[c] [] i = 1 -> ProfileOf(c).a1
                                         [] i = 2 -> ProfileOf(c).a2
                                         [] i = 3 -> ProfileOf(c).a3
                                         [] OTHER -> Junk(i)],
                        elr |-> ProfileOf(c).elr,
                        halted |-> FALSE, ret |-> NoRet, written |-> {}]]
              bs == [b \in Cores |->
                       [esr_el2 |-> AsU64(ESR_ZERO), hpfar |-> ProfileOf(b).hpfar,
                        far |-> ProfileOf(b).far]]
          IN  mc = [cores |-> cs, banks |-> bs,
                    solo |-> [c \in Cores |->
                                [regs |-> cs[c].regs, tf_elr |-> cs[c].tf_elr,
                                 gp_regs |-> cs[c].gp_regs, elr |-> cs[c].elr,
                                 esr_el2 |-> bs[FaultRegBank(c)].esr_el2,
                                 hpfar |-> bs[FaultRegBank(c)].hpfar,
                                 far |-> bs[FaultRegBank(c)].far,
                                 halted |-> FALSE, ret |-> NoRet, written |-> {}]],
                    steps |-> 0]

\* core c takes a trap from its guest; solo[c] follows the same trap on a
\* copy of the core that no other core can reach
CoreTrap(c) ==
    /\ mc.steps < MaxTraps
    /\ \E t \in McTraps :
          LET st == handle_lower_exception(t.info, t.esr, CoreEntry(c))
              alone == handle_lower_exception(t.info, t.esr,
                           [mc.solo[c] EXCEPT !.halted = FALSE, !.ret = NoRet,
                                              !.written = {}])
          IN  mc' = [cores |-> [mc.cores EXCEPT ![c] =
                                  [regs |-> st.regs, tf_elr |-> st.tf_elr,
                                   gp_regs |-> st.gp_regs, elr |-> st.elr,
                                   halted |-> st.halted, ret |-> st.ret,
                                   written |-> st.written]],
                     banks |-> [mc.banks EXCEPT ![FaultRegBank(c)] =
                                  [esr_el2 |-> st.esr_el2, hpfar |-> st.hpfar,
                                   far |-> st.far]],
                     solo |-> [mc.solo EXCEPT ![c] = alone],
                     steps |-> mc.steps + 1]
    /\ UNCHANGED <<tf, vcpu, ESR_EL2, HPFAR_EL2, FAR_EL2, halted, ret, written, call,
                   ntraps, p0, nsmc, lastRemap, conv>>

NextCores == \E c \in Cores : CoreTrap(c)

SpecCores == InitCores /\ [][NextCores]_vars

----------------------------------------------------------------------------
(* Vocabulary of the properties *)

IsOwn == call.handler = "handle_exception"

IsLower == call.handler = "handle_lower_exception"

\* the variant the syndrome of the last trap decodes to
Decoded == SyndromeFrom(call.esr).tag

IsSync == call.info.kind = "Synchronous"

IsSmc == IsLower /\ IsSync /\ Decoded = "SMC"

\* q = p + 4 modulo 2^64, by the carries between limbs
Plus4(p, q) ==
    \E c \in [1 .. 4 -> {0, 1}] :
        /\ p[1] + 4 = q[1] + c[1] * 2^16
        /\ p[2] + c[1] = q[2] + c[2] * 2^16
        /\ p[3] + c[2] = q[3] + c[3] * 2^16
        /\ p[4] + c[3] = q[4] + c[4] * 2^16

\* q = p + n modulo 2^64 for n < 2^16, by the carries between limbs
PlusSmall(p, n, q) ==
    \E c \in [1 .. 4 -> {0, 1}] :
        /\ p[1] + n = q[1] + c[1] * 2^16
        /\ p[2] + c[1] = q[2] + c[2] * 2^16
        /\ p[3] + c[2] = q[3] + c[3] * 2^16
        /\ p[4] + c[3] = q[4] + c[4] * 2^16

\* y = x >> 8: x is y shifted left by eight bits plus a low byte
IsShr8(x, y) ==
    /\ y[4] < 2^8
    /\ \E b \in 0 .. (2^8 - 1) : x[1] = (y[1] % 2^8) * 2^8 + b
    /\ \A i \in 2 .. 4 : x[i] = (y[i] % 2^8) * 2^8 + (y[i - 1] \div 2^8)

\* the raw syndrome of the last trap as a 64-bit value
RawSyndrome == <<call.esr[1], call.esr[2], 0, 0>>

\* tf.regs[0..3]
ResultRegs == <<tf.regs[0], tf.regs[1], tf.regs[2], tf.regs[3]>>

Decision == {<<RET_TO_REC>>, <<RET_TO_RMM>>}

----------------------------------------------------------------------------
(* Properties *)

\* C1: in handle_exception every trap other than a synchronous breakpoint
\* ends halted, and the saved program counter of the trap frame is not advanced.
C1_OwnOtherHalts ==
    (IsOwn /\ ~(IsSync /\ Decoded = "Brk"))
        => (halted /\ ret = NoRet /\ tf.elr = call.pre.tf_elr)

C1_Witness ==
    IsOwn /\ call.info.kind = "Irq" /\ Decoded = "Brk" /\ halted
          /\ call.info.source = "LowerAArch64"

\* C2: in handle_exception a synchronous breakpoint returns without halting
\* and leaves the saved program counter at P + 4 (64-bit arithmetic).
C2_OwnBrkAdvances ==
    (IsOwn /\ IsSync /\ Decoded = "Brk")
        => (~halted /\ Plus4(call.pre.tf_elr, tf.elr))

C2_Witness ==
    IsOwn /\ IsSync /\ Decoded = "Brk" /\ ~halted
          /\ call.pre.tf_elr = <<16384, 8, 0, 0>> /\ tf.elr = <<16388, 8, 0, 0>>

\* C3: handle_lower_exception never halts: it returns 0 or 1 for every input
\* and after any earlier traps, and the halted state is only ever entered
\* by handle_exception.
C3_LowerNeverHalts ==
    /\ IsLower => (~halted /\ ret \in Decision)
    /\ halted => IsOwn

C3_Witness ==
    IsLower /\ call.info.kind = "SError" /\ ret = <<RET_TO_REC>> /\ ~halted
            /\ ntraps = 2 /\ tf.regs[0] = RET_EXCEPTION_IRQ

\* C4 as stated: handle_lower_exception returns 0 or 1 and has written
\* trap-frame registers 0 to 3 on every return.
C4_Original ==
    IsLower => (ret \in Decision /\ (0 .. 3) \subseteq written)

\* C4: handle_lower_exception returns 0 or 1, and whenever it returns 1
\* (exit to the monitor) it has written trap-frame registers 0 to 3.
C4_ExitWritesResult ==
    IsLower => (/\ ret \in Decision
                /\ ret = <<RET_TO_RMM>> => (0 .. 3) \subseteq written)

C4_Witness ==
    IsLower /\ call.info.kind = "Irq" /\ ret = <<RET_TO_RMM>> /\ written = 0 .. 3
            /\ call.info.source = "CurrentSPELx"

\* C5: the remap-shared-page SMC reports [TRAP, fabricated syndrome, a1 >> 8, a2],
\* advances the guest PC by 4, exits to the monitor, and mirrors result
\* registers 1, 2, 3 into ESR_EL2, HPFAR_EL2, FAR_EL2.
C5_RemapPage ==
    (IsSmc /\ call.pre.gp_regs[0] = REMAP_PAGE)
        => /\ tf.regs[0] = RET_EXCEPTION_TRAP
           /\ tf.regs[1] = DataAbortTranslationInto(3)
           /\ tf.regs[1] # RawSyndrome
           /\ IsShr8(call.pre.gp_regs[1], tf.regs[2])
           /\ tf.regs[3] = call.pre.gp_regs[2]
           /\ Plus4(call.pre.elr, vcpu.elr)
           /\ ret = <<RET_TO_RMM>>
           /\ ESR_EL2 = tf.regs[1]
           /\ HPFAR_EL2 = tf.regs[2]
           /\ FAR_EL2 = tf.regs[3]

C5_Witness ==
    /\ IsSmc /\ call.pre.gp_regs[0] = REMAP_PAGE
    /\ call.pre.gp_regs[1] = U64(4096) /\ call.pre.gp_regs[2] = U64(85)
    /\ tf.regs[2] = U64(16) /\ tf.regs[3] = U64(85)
    /\ HPFAR_EL2 = U64(16) /\ FAR_EL2 = U64(85) /\ ESR_EL2 = <<7, 36864, 0, 0>>
    /\ ret = <<RET_TO_RMM>>

\* C6: the host-call SMC reports [HOST_CALL, a1, a2, a3], advances the guest
\* PC by 4 and exits to the monitor.
C6_HostCall ==
    (IsSmc /\ call.pre.gp_regs[0] = HOST_CALL)
        => /\ ResultRegs = <<HOST_CALL, call.pre.gp_regs[1], call.pre.gp_regs[2],
                             call.pre.gp_regs[3]>>
           /\ Plus4(call.pre.elr, vcpu.elr)
           /\ ret = <<RET_TO_RMM>>

C6_Witness ==
    /\ IsSmc /\ call.pre.gp_regs[0] = HOST_CALL
    /\ ResultRegs = <<HOST_CALL, U64(4096), U64(85), U64(51)>>
    /\ vcpu.elr = <<32772, 0, 0, 0>>
    /\ ret = <<RET_TO_RMM>>

\* C7: a synchronous HVC trap with raw syndrome S and FAR_EL2 = A reports
\* [TRAP, S, 0, A] and exits to the monitor.
C7_HypervisorCall ==
    (IsLower /\ IsSync /\ Decoded = "HVC")
        => /\ ResultRegs = <<RET_EXCEPTION_TRAP, RawSyndrome, ZERO, call.pre.far>>
           /\ ret = <<RET_TO_RMM>>

C7_Witness ==
    /\ IsLower /\ IsSync /\ Decoded = "HVC"
    /\ tf.regs[1] = <<0, 23040, 0, 0>> /\ tf.regs[3] = <<43981, 0, 0, 0>>
    /\ ret = <<RET_TO_RMM>>

\* C8: a synchronous trap whose syndrome is neither HVC nor SMC reports
\* [TRAP, S, HPFAR_EL2, FAR_EL2] from the hardware state and exits to the monitor.
C8_AbortAndOther ==
    (IsLower /\ IsSync /\ Decoded \notin {"HVC", "SMC"})
        => /\ ResultRegs = <<RET_EXCEPTION_TRAP, RawSyndrome, call.pre.hpfar,
                             call.pre.far>>
           /\ ret = <<RET_TO_RMM>>

C8_Witness ==
    /\ IsLower /\ IsSync /\ Decoded = "DataAbort"
    /\ ResultRegs = <<RET_EXCEPTION_TRAP, <<11, 37376, 0, 0>>, <<48, 2, 0, 0>>,
                      <<43981, 0, 0, 0>>>>
    /\ ret = <<RET_TO_RMM>>

\* C9: an Irq trap with raw syndrome S reports [IRQ, S, 0, FAR_EL2] and exits
\* to the monitor.
C9_Interrupt ==
    (IsLower /\ call.info.kind = "Irq")
        => /\ ResultRegs = <<RET_EXCEPTION_IRQ, RawSyndrome, ZERO, call.pre.far>>
           /\ ret = <<RET_TO_RMM>>

C9_Witness ==
    /\ IsLower /\ call.info.kind = "Irq" /\ Decoded = "SMC"
    /\ ResultRegs = <<RET_EXCEPTION_IRQ, <<0, 24064, 0, 0>>, ZERO, <<1, 2, 3, 65535>>>>
    /\ ret = <<RET_TO_RMM>>

\* C10: an SMC whose command is neither HOST_CALL nor REMAP_PAGE advances the
\* guest PC by 4 and resumes the guest.
C10_UnknownSmc ==
    (IsSmc /\ call.pre.gp_regs[0] \notin {HOST_CALL, REMAP_PAGE})
        => (Plus4(call.pre.elr, vcpu.elr) /\ ret = <<RET_TO_REC>>)

C10_Witness ==
    /\ IsSmc /\ call.pre.gp_regs[0] = CMD_HIGH
    /\ call.pre.elr = <<65532, 65535, 65535, 65535>> /\ vcpu.elr = ZERO
    /\ ret = <<RET_TO_REC>>

\* C11: a Fiq or SError trap from the guest returns 0 (resume guest), for
\* every source and syndrome.
C11_FiqSErrorResume ==
    (IsLower /\ call.info.kind \in {"Fiq", "SError"}) => ret = <<RET_TO_REC>>

C11_Witness ==
    IsLower /\ call.info.kind = "Fiq" /\ call.esr = ESR_DABT
            /\ call.info.source = "LowerAArch32" /\ ret = <<RET_TO_REC>>

\* C12: handle_lower_exception advances the guest PC by 4 in the three SMC
\* cases and leaves it unchanged for every other trap.
C12_PcAdvancedOnlyForSmc ==
    IsLower => IF IsSmc THEN Plus4(call.pre.elr, vcpu.elr)
                        ELSE vcpu.elr = call.pre.elr

C12_Witness ==
    /\ IsLower /\ IsSync /\ Decoded = "HVC" /\ vcpu.elr = call.pre.elr
    /\ ntraps = 2 /\ vcpu.elr = <<32772, 0, 0, 0>>

C17_FaultRegsOnlyByRemap ==
    ((IsLower \/ IsOwn) /\ ~(IsSmc /\ call.pre.gp_regs[0] = REMAP_PAGE))
        => /\ ESR_EL2 = call.pre.esr_el2
           /\ HPFAR_EL2 = call.pre.hpfar
           /\ FAR_EL2 = call.pre.far

C17_Witness ==
    /\ IsLower /\ IsSync /\ Decoded = "DataAbort"
    /\ ESR_EL2 = ZERO /\ FAR_EL2 = <<1, 2, 3, 65535>> /\ HPFAR_EL2 = U64(16)
    /\ call.pre.gp_regs[0] = REMAP_PAGE

\* C18: handle_lower_exception changes nothing of the trap frame but
\* registers 0 to 3 and nothing of the guest context but its saved PC, and
\* when it returns 0 it changes nothing of the trap frame at all.
C18_FrameOfLowerHandler ==
    IsLower => /\ \A i \in TfRegIdx \ (0 .. 3) : tf.regs[i] = call.pre.regs[i]
               /\ tf.elr = call.pre.tf_elr
               /\ vcpu.gp_regs = call.pre.gp_regs
               /\ ret = <<RET_TO_REC>> => tf.regs = call.pre.regs

C18_Witness ==
    /\ IsSmc /\ call.pre.gp_regs[0] = ZERO /\ ret = <<RET_TO_REC>>
    /\ tf.regs = call.pre.regs /\ tf.regs[0] = RET_EXCEPTION_IRQ
    /\ tf.regs[4] = Junk(4)

\* C19: the guest's saved PC is P0 + 4 * (number of guest traps that were
\* Synchronous with an SMC syndrome) modulo 2^64, and one invocation of
\* handle_lower_exception moves it by 0 or by 4.
C19_PcCountsSmcTraps ==
    /\ PlusSmall(p0, 4 * nsmc, vcpu.elr)
    /\ IsLower => (vcpu.elr = call.pre.elr \/ Plus4(call.pre.elr, vcpu.elr))

C19_Witness ==
    /\ nsmc = 2 /\ ntraps = 2 /\ IsSmc
    /\ p0 = <<65532, 65535, 65535, 65535>> /\ vcpu.elr = U64(4)

\* C20: while the hardware has not updated the fault registers since a remap
\* call with arguments a1, a2, an Irq or HVC trap reports a2 in tf.regs[3], and
\* an abort or unclassified synchronous trap reports a1 >> 8 in tf.regs[2] and
\* a2 in tf.regs[3].
C20_RemapValuesPersist ==
    (IsLower /\ call.remap # <<>>)
        => /\ (call.info.kind = "Irq" \/ (IsSync /\ Decoded = "HVC"))
                => tf.regs[3] = call.remap[2]
           /\ (IsSync /\ Decoded \notin {"HVC", "SMC"})
                => /\ IsShr8(call.remap[1], tf.regs[2])
                   /\ tf.regs[3] = call.remap[2]

C20_Witness ==
    /\ IsLower /\ IsSync /\ Decoded = "InstructionAbort"
    /\ call.remap = <<U64(4096), U64(85)>>
    /\ tf.regs[2] = U64(16) /\ tf.regs[3] = U64(85)
    /\ ret = <<RET_TO_RMM>>

\* the table of the boundary error codes
C13_Table ==
    [e \in MmError |->
        CASE e = "MmStateError" -> 1 [] e = "MmInvalidAddr" -> 2
          [] e = "MmInvalidLevel" -> 11 [] e = "MmNoEntry" -> 12
          [] e = "MmAllocFail" -> 13 [] e = "MmRustError" -> 14
          [] e = "MmUnimplemented" -> 15 [] e = "MmIsInUse" -> 16
          [] e = "MmRefcountError" -> 17 [] e = "MmErrorOthers" -> 99]

\* C13: usize::from is defined on all ten variants and yields the fixed table;
\* the values are not the declaration ordinals and no two variants share one.
C13_ErrorCodes ==
    /\ Cardinality(MmError) = 10
    /\ \A i \in 1 .. Len(conv.usize) :
          /\ conv.usize[i].val \in Nat
          /\ conv.usize[i].val = C13_Table[conv.usize[i].err]
          /\ \A j \in 1 .. Len(conv.usize) :
                conv.usize[i].err # conv.usize[j].err
                    => conv.usize[i].val # conv.usize[j].val

C13_Witness ==
    /\ Len(conv.usize) = 2
    /\ conv.usize[1] = [err |-> "MmErrorOthers", val |-> 99]
    /\ conv.usize[2] = [err |-> "MmInvalidLevel", val |-> 11]

\* C14: RmiError::from yields RmiErrorInput for every variant, so two different
\* memory-management errors convert to the same value.
C14_RmiErrorCollapses ==
    \A i \in 1 .. Len(conv.rmi) :
        /\ conv.rmi[i].val = "RmiErrorInput"
        /\ \A j \in 1 .. Len(conv.rmi) : conv.rmi[i].val = conv.rmi[j].val

C14_Witness ==
    /\ Len(conv.rmi) = 2
    /\ conv.rmi[1].err = "MmNoEntry" /\ conv.rmi[2].err = "MmAllocFail"
    /\ conv.rmi[1].val = conv.rmi[2].val

=============================================================================
